---- MODULE Spec2Model ----
(***************************************************************************)
(* Model of the CS2 leaderboard server (src/index.js): the FTP-driven      *)
(* aggregation of backup_round*.txt snapshots into game results, the merge *)
(* into games.json, the leaderboard roll-up and the request handlers.      *)
(*                                                                         *)
(* Values.  A JavaScript number that may be NaN is [nan, v]; a Date is     *)
(* [valid, ms] (epoch milliseconds, "Invalid Date" has valid = FALSE); an  *)
(* optional property of a decoded tree is a sequence of length 0 (absent)  *)
(* or 1 (present).  Node runs one callback at a time: every action below   *)
(* is the synchronous code between two awaits.                             *)
(***************************************************************************)
EXTENDS Integers, Sequences, FiniteSets, TLC

VARIABLES
  remote,          \* the FTP directory: the backup_round*.txt files, in listing order
  remoteGen,       \* how many times the game server has rewritten the directory
  gamesJson,       \* games.json
  leaderboardJson, \* leaderboard.json
  gameResultsData, \* let gameResultsData (index.js:26)
  leaderboardData, \* let leaderboardData (index.js:27)
  task,            \* the in-flight async calls: one record per slot
  persistedGen,    \* remoteGen of the listing games.json was last computed from
  lastDone,        \* the last completed operation: its kind and what it resolved
  fnInput,         \* function-level checks: the fileInfos handed to the function
  fnGroups,        \* function-level checks: groupFilesIntoGames' result
  fnResults,       \* function-level checks: the resolver's result
  fnPhase          \* function-level checks: "input" or "done"

vars == <<remote, remoteGen, gamesJson, leaderboardJson, gameResultsData,
          leaderboardData, task, persistedGen, lastDone,
          fnInput, fnGroups, fnResults, fnPhase>>

serverVars == <<remote, remoteGen, gamesJson, leaderboardJson, gameResultsData,
                leaderboardData, task, persistedGen, lastDone>>

fnVars == <<fnInput, fnGroups, fnResults, fnPhase>>

----------------------------------------------------------------------------
(* Generic helpers *)

Range(s) == {s[i] : i \in 1..Len(s)}

RECURSIVE SeqsUpTo(_, _)
SeqsUpTo(S, n) ==
  IF n = 0 THEN {<<>>}
  ELSE LET shorter == SeqsUpTo(S, n - 1)
       IN shorter \cup {Append(s, x) : s \in {t \in shorter : Len(t) = n - 1}, x \in S}

RECURSIVE Concat(_)
\* the concatenation of a sequence of sequences
Concat(ss) == IF ss = <<>> THEN <<>> ELSE Head(ss) \o Concat(Tail(ss))

RECURSIVE FilterSeq(_, _)
\* the subsequence of s at the indices in keep
FilterSeq(s, keep) ==
  IF s = <<>> THEN <<>>
  ELSE LET n == Len(s)
           init == FilterSeq(SubSeq(s, 1, n - 1), keep)
       IN IF n \in keep THEN Append(init, s[n]) ELSE init

\* optional properties of a decoded tree
None == <<>>
Some(x) == <<x>>

\* JavaScript numbers
NaN == [nan |-> TRUE, v |-> 0]
Num(n) == [nan |-> FALSE, v |-> n]

\* JavaScript's % (the sign of the dividend) for a positive divisor
JsRem(a, b) == IF a >= 0 THEN a % b ELSE 0 - ((0 - a) % b)

\* n.toString().padStart(2, "0") of an integer
PadStart2(n) == IF n >= 0 /\ n < 10 THEN "0" \o ToString(n) ELSE ToString(n)

\* n.toString().padStart(3, "0") of a non-negative integer
PadStart3(n) ==
  IF n < 10 THEN "00" \o ToString(n)
  ELSE IF n < 100 THEN "0" \o ToString(n) ELSE ToString(n)

----------------------------------------------------------------------------
(* index.js:29-41 *)

InvalidDate == [valid |-> FALSE, ms |-> 0]
DateOf(ms) == [valid |-> TRUE, ms |-> ms]

\* The raw timestamp string of a SaveFile is [kind, ms]: "ok" parses to the
\* instant ms, "bad" is a non-empty string that new Date() cannot parse.
parseTimestamp(ts) == IF ts.kind = "ok" THEN DateOf(ts.ms) ELSE InvalidDate

\* a.timestamp - b.timestamp, and (endTime - startTime)
DateDiff(a, b) == IF a.valid /\ b.valid THEN Num(a.ms - b.ms) ELSE NaN

\* Math.floor(x / 1000)
FloorSeconds(x) == IF x.nan THEN NaN ELSE Num(x.v \div 1000)

formatDuration(seconds) ==
  IF seconds.nan THEN "NaN:NaN:NaN"
  ELSE LET sec == seconds.v
           h == sec \div 3600
           m == JsRem(sec, 3600) \div 60
           s == JsRem(sec, 60)
       IN PadStart2(h) \o ":" \o PadStart2(m) \o ":" \o PadStart2(s)

\* Date.prototype.toISOString for an instant of 1970-01-01 (UTC); an invalid
\* Date makes it throw a RangeError, which the callers model themselves.
toISOString(d) ==
  LET sec == d.ms \div 1000
  IN "1970-01-01T" \o PadStart2(sec \div 3600) \o ":" \o PadStart2((sec % 3600) \div 60)
       \o ":" \o PadStart2(sec % 60) \o "." \o PadStart3(d.ms % 1000) \o "Z"

----------------------------------------------------------------------------
(* Array.prototype.sort with a comparator (a, b) => key(a) - key(b), as     *)
(* index.js:48, 163, 265 and 355 call it.  SortCompare turns a NaN result   *)
(* of the comparator into +0.  The order is the one Node's engine produces  *)
(* for arrays of fewer than 32 elements: the leading run is found (and      *)
(* reversed when strictly descending), then the rest is inserted by binary  *)
(* insertion.  For keys without NaN this is the stable ascending sort.      *)
(* SortOrder works on the sequence of keys and returns the permutation.     *)

SortCompare(a, b) == IF a.nan \/ b.nan THEN 0 ELSE a.v - b.v

RECURSIVE RunEnd(_, _, _, _)
\* the last index of the run of p that starts at 1 and reaches i so far
RunEnd(keys, p, i, desc) ==
  IF i = Len(p) THEN i
  ELSE LET order == SortCompare(keys[p[i + 1]], keys[p[i]])
       IN IF desc
          THEN IF order >= 0 THEN i ELSE RunEnd(keys, p, i + 1, desc)
          ELSE IF order < 0 THEN i ELSE RunEnd(keys, p, i + 1, desc)

ReversePrefix(p, e) ==
  [i \in 1..Len(p) |-> IF i <= e THEN p[e + 1 - i] ELSE p[i]]

RECURSIVE BinarySearch(_, _, _, _, _)
\* where the pivot goes among p[left..right-1]
BinarySearch(keys, p, pivot, left, right) ==
  IF left >= right THEN left
  ELSE LET mid == left + ((right - left) \div 2)
       IN IF SortCompare(keys[pivot], keys[p[mid]]) < 0
          THEN BinarySearch(keys, p, pivot, left, mid)
          ELSE BinarySearch(keys, p, pivot, mid + 1, right)

RECURSIVE BinaryInsertionSort(_, _, _)
\* p[1..start-1] is in place; insert p[start], p[start+1], ...
\* p with p[start] moved down to position at
MoveTo(p, start, at) ==
  [i \in 1..Len(p) |->
     IF i < at \/ i > start THEN p[i]
     ELSE IF i = at THEN p[start] ELSE p[i - 1]]

BinaryInsertionSort(keys, p, start) ==
  IF start > Len(p) THEN p
  ELSE BinaryInsertionSort(keys,
                           MoveTo(p, start, BinarySearch(keys, p, p[start], 1, start)),
                           start + 1)

\* the run p[1..e] is in order (after a reversal when it descends)
SortFromRun(keys, p, e, desc) ==
  BinaryInsertionSort(keys, IF desc THEN ReversePrefix(p, e) ELSE p, e + 1)

SortWithRun(keys, p, desc) == SortFromRun(keys, p, RunEnd(keys, p, 2, desc), desc)

SortOrder(keys) ==
  IF Len(keys) < 2 THEN [i \in 1..Len(keys) |-> i]
  ELSE SortWithRun(keys, [i \in 1..Len(keys) |-> i], SortCompare(keys[2], keys[1]) < 0)

\* the timestamp of a file info as a number (NaN for an invalid Date)
TimeKey(info) == IF info.timestamp.valid THEN Num(info.timestamp.ms) ELSE NaN

\* xs.sort((a, b) => a.timestamp - b.timestamp)
Permute(xs, order) == [i \in 1..Len(xs) |-> xs[order[i]]]

SortByTimestamp(xs) == Permute(xs, SortOrder([i \in 1..Len(xs) |-> TimeKey(xs[i])]))

----------------------------------------------------------------------------
(* index.js:45-62 *)

\* a variant of the boundary test that looks at the map only
StartsNewGameOnMapChange(info, currentGame) ==
  Len(currentGame) > 0 /\ info.data.map # currentGame[1].data.map

\* Does the loop of groupFilesIntoGames close the open group at this record?
StartsNewGame(info, currentGame) ==
  \/ info.round = 1 /\ Len(currentGame) > 0
  \/ Len(currentGame) > 0 /\ info.data.map # currentGame[1].data.map

RECURSIVE GroupLoopWithoutLast(_, _, _, _)
\* a variant of the loop that does not push the group left open at the end
GroupLoopWithoutLast(sorted, i, groups, currentGame) ==
  IF i > Len(sorted)
  THEN groups
  ELSE IF StartsNewGame(sorted[i], currentGame)
       THEN GroupLoopWithoutLast(sorted, i + 1, Append(groups, currentGame), <<sorted[i]>>)
       ELSE GroupLoopWithoutLast(sorted, i + 1, groups, Append(currentGame, sorted[i]))

RECURSIVE GroupLoop(_, _, _, _)
\* index.js:49-60: the loop over the sorted file infos and the final push
GroupLoop(sorted, i, groups, currentGame) ==
  IF i > Len(sorted)
  THEN IF Len(currentGame) > 0 THEN Append(groups, currentGame) ELSE groups
  ELSE IF StartsNewGame(sorted[i], currentGame)
       THEN GroupLoop(sorted, i + 1, Append(groups, currentGame), <<sorted[i]>>)
       ELSE GroupLoop(sorted, i + 1, groups, Append(currentGame, sorted[i]))

groupFilesIntoGames(fileInfos) ==
  GroupLoop(SortByTimestamp(fileInfos), 1, <<>>, <<>>)

----------------------------------------------------------------------------
(* index.js:68-83 *)

\* parseInt(x || "0", 10) of an optional numeric property
IntOrZero(x) == IF x = None THEN 0 ELSE x[1]

getFinalScore(saveFile) ==
  LET part(c, team) == IF c = None THEN 0 ELSE IntOrZero(c[1][team])
  IN [team1 |-> part(saveFile.FirstHalfScore, "team1")
                  + part(saveFile.SecondHalfScore, "team1")
                  + part(saveFile.OvertimeScore, "team1"),
      team2 |-> part(saveFile.FirstHalfScore, "team2")
                  + part(saveFile.SecondHalfScore, "team2")
                  + part(saveFile.OvertimeScore, "team2")]

----------------------------------------------------------------------------
(* index.js:134-158: one downloaded file becomes at most one file info *)

\* A decoded file is [kind, save]: "garbage" makes vdf.parse throw, "nosave"
\* has no SaveFile section, "save" has the SaveFile record save.
Usable(content) == content.kind = "save" /\ content.save.timestamp.kind # "missing"

FileInfo(name, content) ==
  [name |-> name,
   timestamp |-> parseTimestamp(content.save.timestamp),
   round |-> IF content.save.round = None THEN 99 ELSE content.save.round[1],
   data |-> content.save]

\* fileInfos after the loop body has run for one more file
PushFileInfo(fileInfos, name, content) ==
  IF Usable(content) THEN Append(fileInfos, FileInfo(name, content)) ELSE fileInfos

----------------------------------------------------------------------------
(* index.js:162-215: one group becomes at most one game result *)

\* index.js:182-186: the entry pushed for a player that has a name
RosterEntry(p) ==
  [name |-> p.name[1], kills |-> IntOrZero(p.kills), deaths |-> IntOrZero(p.deaths)]

Named(p) == p.name # None /\ p.name[1] # "Unknown"

RosterEntries(kept) == [i \in 1..Len(kept) |-> RosterEntry(kept[i])]

\* index.js:175-188
RosterOf(teamPlayers) ==
  IF teamPlayers = None THEN <<>>
  ELSE RosterEntries(FilterSeq(teamPlayers[1],
                               {i \in 1..Len(teamPlayers[1]) : Named(teamPlayers[1][i])}))

NamesOf(roster) == [i \in 1..Len(roster) |-> roster[i].name]

\* a variant of the winner's choice that takes team 1 whenever the scores differ
WinnerAlwaysTeam1(players, score1, score2) ==
  IF score1 # score2 THEN players.team1 ELSE <<>>

\* index.js:190-201: the rosters the winner and loser names are taken from
WinnerRoster(players, score1, score2) ==
  IF score1 # score2 THEN (IF score1 > score2 THEN players.team1 ELSE players.team2)
  ELSE <<>>

LoserRoster(players, score1, score2) ==
  IF score1 # score2 THEN (IF score1 > score2 THEN players.team2 ELSE players.team1)
  ELSE <<>>

\* a variant of the duration test that discards nothing
KeepAnyDuration(duration) == FALSE

\* index.js:169
DiscardByDuration(duration) == duration = "00:00:00"

\* index.js:173
DiscardByScore(finalScore) == finalScore.team1 = 0 /\ finalScore.team2 = 0

\* index.js:190-212
GameResult(startTime, endTime, duration, map, finalScore, players) ==
  [startTime |-> toISOString(startTime),
   endTime |-> toISOString(endTime),
   duration |-> duration,
   map |-> map,
   finalScore |-> finalScore,
   players |-> players,
   winner |-> NamesOf(WinnerRoster(players, finalScore.team1, finalScore.team2)),
   loser |-> NamesOf(LoserRoster(players, finalScore.team1, finalScore.team2))]

\* index.js:169-212, the outcome of one iteration of the loop over gameGroups:
\* "skip" (continue), "throw" (toISOString of an invalid Date) or "ok"
Outcome(startTime, endTime, duration, map, finalScore, players) ==
  IF DiscardByDuration(duration) THEN [status |-> "skip", result |-> <<>>]
  ELSE IF DiscardByScore(finalScore) THEN [status |-> "skip", result |-> <<>>]
  ELSE IF ~startTime.valid \/ ~endTime.valid THEN [status |-> "throw", result |-> <<>>]
  ELSE [status |-> "ok",
        result |-> <<GameResult(startTime, endTime, duration, map, finalScore, players)>>]

\* index.js:164-188
ResolveSpan(startTime, finalSnapshot) ==
  Outcome(startTime,
          finalSnapshot.timestamp,
          formatDuration(FloorSeconds(DateDiff(finalSnapshot.timestamp, startTime))),
          IF finalSnapshot.data.map = None THEN "Unknown" ELSE finalSnapshot.data.map[1],
          getFinalScore(finalSnapshot.data),
          [team1 |-> RosterOf(finalSnapshot.data.PlayersOnTeam1),
           team2 |-> RosterOf(finalSnapshot.data.PlayersOnTeam2)])

ResolveSorted(group) == ResolveSpan(group[1].timestamp, group[Len(group)])

\* index.js:163
ResolveGroup(unsorted) == ResolveSorted(SortByTimestamp(unsorted))

RECURSIVE ResolveLoop(_, _, _)
RECURSIVE ResolveNext(_, _, _, _)
ResolveLoop(gameGroups, i, gameResults) ==
  IF i > Len(gameGroups) THEN [threw |-> FALSE, results |-> gameResults]
  ELSE ResolveNext(gameGroups, i, gameResults, ResolveGroup(gameGroups[i]))

ResolveNext(gameGroups, i, gameResults, r) ==
  IF r.status = "throw" THEN [threw |-> TRUE, results |-> <<>>]
  ELSE ResolveLoop(gameGroups, i + 1, gameResults \o r.result)

\* index.js:159-215: the game results of the collected file infos, or the throw
ResolveGames(fileInfos) == ResolveLoop(groupFilesIntoGames(fileInfos), 1, <<>>)

----------------------------------------------------------------------------
(* index.js:233-268 *)

\* tempLeaderboard is an object literal: tempLeaderboard[name] also finds what
\* the object inherits from Object.prototype, and a player may bear such a name
InheritedProperty(name) ==
  name \in {"constructor", "toString", "valueOf", "hasOwnProperty", "__proto__"}

RECURSIVE IndexOfName(_, _, _)
\* the position of name's entry in tempLeaderboard at or after i, or 0
IndexOfName(lb, name, i) ==
  IF i > Len(lb) THEN 0
  ELSE IF lb[i].name = name THEN i ELSE IndexOfName(lb, name, i + 1)

\* index.js:247-249; without an entry of its own the name has found an
\* inherited object, and the sums are written to that object
Count(lb, at, player) ==
  IF at = 0 THEN lb
  ELSE [lb EXCEPT ![at].matchesPlayed = @ + 1,
                  ![at].totalKills = @ + player.kills,
                  ![at].totalDeaths = @ + player.deaths]

\* index.js:238-246: an entry is made unless tempLeaderboard[name] is truthy
WithEntryFor(lb, name) ==
  IF IndexOfName(lb, name, 1) = 0 /\ ~InheritedProperty(name)
  THEN Append(lb, [name |-> name, matchesPlayed |-> 0, wins |-> 0,
                   totalKills |-> 0, totalDeaths |-> 0])
  ELSE lb

CountIn(lb, player) == Count(lb, IndexOfName(lb, player.name, 1), player)

\* index.js:238-249: the body of the forEach over one roster
AddAppearance(lb, player) == CountIn(WithEntryFor(lb, player.name), player)

\* index.js:257 at the entry found
WinAt(lb, at) == IF at = 0 THEN lb ELSE [lb EXCEPT ![at].wins = @ + 1]

\* index.js:256-258
AddWin(lb, player) == WinAt(lb, IndexOfName(lb, player.name, 1))

RECURSIVE AddAppearances(_, _, _)
AddAppearances(lb, roster, i) ==
  IF i > Len(roster) THEN lb
  ELSE AddAppearances(AddAppearance(lb, roster[i]), roster, i + 1)

RECURSIVE AddWins(_, _, _)
AddWins(lb, roster, i) ==
  IF i > Len(roster) THEN lb ELSE AddWins(AddWin(lb, roster[i]), roster, i + 1)

\* index.js:252-259
CreditWinners(lb, game) ==
  IF game.finalScore.team1 # game.finalScore.team2
  THEN AddWins(lb, IF game.finalScore.team1 > game.finalScore.team2
                   THEN game.players.team1 ELSE game.players.team2, 1)
  ELSE lb

\* index.js:235-260: one iteration of the loop over the games
CountGame(lb, game) ==
  CreditWinners(AddAppearances(AddAppearances(lb, game.players.team1, 1),
                               game.players.team2, 1), game)

RECURSIVE CountGames(_, _, _)
CountGames(lb, games, i) ==
  IF i > Len(games) THEN lb ELSE CountGames(CountGame(lb, games[i]), games, i + 1)

\* index.js:262: kd is the string (kills / deaths).toFixed(2), or the number
\* totalKills when there are no deaths.  It is kept in hundredths; fixed tells
\* the string from the number.  toFixed rounds to the nearest hundredth, a tie
\* upwards (exact for fewer than 40 deaths, where every tie is a dyadic value).
KdOf(p) ==
  IF p.totalDeaths > 0
  THEN [fixed |-> TRUE,
        hundredths |-> (200 * p.totalKills + p.totalDeaths) \div (2 * p.totalDeaths)]
  ELSE [fixed |-> FALSE, hundredths |-> 100 * p.totalKills]

\* index.js:261-264
WithKd(p) ==
  [name |-> p.name, matchesPlayed |-> p.matchesPlayed, wins |-> p.wins,
   totalKills |-> p.totalKills, totalDeaths |-> p.totalDeaths, kd |-> KdOf(p)]

\* a variant of the sort that puts the lowest kd first
SortByKdAscending(lb) ==
  Permute(lb, SortOrder([i \in 1..Len(lb) |-> Num(lb[i].kd.hundredths)]))

\* index.js:265: newLeaderboard.sort((a, b) => parseFloat(b.kd) - parseFloat(a.kd))
SortByKdDescending(lb) ==
  Permute(lb, SortOrder([i \in 1..Len(lb) |-> Num(0 - lb[i].kd.hundredths)]))

WithKds(tempLeaderboard) == [i \in 1..Len(tempLeaderboard) |-> WithKd(tempLeaderboard[i])]

\* The value returned and written to leaderboard.json.  Object.values lists
\* the entries in the order the names were first seen (names that are not
\* array indices).
aggregateLeaderboardFromGames(gameResults) ==
  SortByKdDescending(WithKds(CountGames(<<>>, gameResults, 1)))

----------------------------------------------------------------------------
(* index.js:88-103, 217, 272-287: games.json and the merge *)

\* JSON.parse(JSON.stringify(x)) is x for the integers, strings, arrays and
\* objects a game result is made of, so games.json is kept as the value.
loadPersistedGames(file) == file

\* a variant of the save that appends the results to the file's content
SavedByAppending(gameResults, file) == file \o gameResults

\* index.js:217: what games.json holds after aggregateGameResults has saved
SavedByAggregate(gameResults, file) == gameResults

\* index.js:277-279
SameGame(g, newGame) == g.startTime = newGame.startTime /\ g.map = newGame.map

\* index.js:276-283: the body of the forEach
MergeOne(persistedGames, newGame) ==
  IF \E i \in 1..Len(persistedGames) : SameGame(persistedGames[i], newGame)
  THEN persistedGames
  ELSE Append(persistedGames, newGame)

RECURSIVE MergeGames(_, _)
MergeGames(persistedGames, newGames) ==
  IF newGames = <<>> THEN persistedGames
  ELSE MergeGames(MergeOne(persistedGames, Head(newGames)), Tail(newGames))

----------------------------------------------------------------------------
(* The decoded files the model draws from *)

MaxFiles == 2          \* files in the FTP directory while it is being rewritten
MaxTasks == 2          \* async calls in flight at once
MaxRemoteChanges == 2  \* rewrites of the FTP directory in one behaviour
MaxBatchFiles == 5     \* files in an FTP directory that stays as it is
MaxGroupInput == 4     \* file infos handed to groupFilesIntoGames
MaxResolveInput == 2   \* file infos handed to the resolver
MaxGames == 2          \* game results of a history handed to the leaderboard
MaxQueryFiles == 3     \* files of the directory the queries are answered from

Player(name, kills, deaths) ==
  [name |-> Some(name), kills |-> Some(kills), deaths |-> Some(deaths)]

HalfScore(a, b) == Some([team1 |-> Some(a), team2 |-> Some(b)])

OkTimestamp(ms) == [kind |-> "ok", ms |-> ms]
BadTimestamp == [kind |-> "bad", ms |-> 0]
NoTimestamp == [kind |-> "missing", ms |-> 0]

SaveFile(ts, round, map, first, second, overtime, team1, team2) ==
  [kind |-> "save",
   save |-> [timestamp |-> ts, round |-> round, map |-> map,
             FirstHalfScore |-> first, SecondHalfScore |-> second,
             OvertimeScore |-> overtime,
             PlayersOnTeam1 |-> team1, PlayersOnTeam2 |-> team2]]

BlankSave == SaveFile(NoTimestamp, None, None, None, None, None, None, None).save
Garbage == [kind |-> "garbage", save |-> BlankSave]
NoSaveSection == [kind |-> "nosave", save |-> BlankSave]

\* a snapshot of a match that stands 2-1, Alice against Bob
Snapshot(ts, round, map) ==
  SaveFile(ts, Some(round), Some(map), HalfScore(1, 1), HalfScore(1, 0), None,
           Some(<<Player("Alice", 2, 1)>>), Some(<<Player("Bob", 1, 2)>>))

\* The files of the server's directory: the first snapshot of a match, the
\* first snapshot of the next match and a later snapshot.  Two of them make
\* one game, a game with another start, or no game.
ServerFiles ==
  {Snapshot(OkTimestamp(0), 1, "de_dust2"),
   Snapshot(OkTimestamp(1000), 1, "de_dust2"),
   Snapshot(OkTimestamp(2000), 2, "de_dust2")}

Listings == SeqsUpTo(ServerFiles, MaxFiles)

\* a file whose timestamp does not parse: round 1, no score section
BadSnapshot ==
  SaveFile(BadTimestamp, Some(1), Some("de_dust2"), None, None, None,
           Some(<<Player("Alice", 0, 0)>>), Some(<<Player("Bob", 0, 0)>>))

\* the first and a later snapshot of a match, and the file that does not parse
BatchFiles ==
  {Snapshot(OkTimestamp(0), 1, "de_dust2"), Snapshot(OkTimestamp(2000), 2, "de_dust2"),
   BadSnapshot}

BatchListings == SeqsUpTo(BatchFiles, MaxBatchFiles)

\* the files groupFilesIntoGames is tried on
GroupFiles ==
  {Snapshot(ts, round, map) :
      ts \in {OkTimestamp(0), OkTimestamp(1000), BadTimestamp},
      round \in {1, 2}, map \in {"de_dust2", "de_mirage"}}

\* the score sections of a file: none, 2-1, 0-2 and 1-1
ScoreSections ==
  {<<None, None>>, <<HalfScore(1, 1), HalfScore(1, 0)>>,
   <<HalfScore(0, 1), HalfScore(0, 1)>>, <<HalfScore(1, 0), HalfScore(0, 1)>>}

\* the files the resolver is tried on; two players of team 1 have no usable name
ResolveFiles ==
  {SaveFile(ts, Some(round), Some("de_dust2"), sc[1], None, sc[2],
            Some(<<Player("Alice", 2, 1), Player("Unknown", 1, 1),
                   [name |-> None, kills |-> Some(1), deaths |-> None]>>),
            Some(<<Player("Bob", 1, 2)>>)) :
      ts \in {OkTimestamp(0), OkTimestamp(500), OkTimestamp(1000), BadTimestamp},
      round \in {1, 2}, sc \in ScoreSections}

\* the instants Date.now() is read at by aggregateCurrentGame: 88 to 93
\* seconds after the earliest snapshot
Nows == {88000, 90000, 91000, 92000, 92001, 93000}

\* The files of the directory the queries are tried on: the first snapshot
\* of a match, two snapshots two seconds later (one without a score), and the
\* artifacts that make no record: a timestamp that does not parse (twice), a
\* file vdf.parse throws on, one without a SaveFile section and one without
\* a timestamp.
QueryFiles ==
  {Snapshot(OkTimestamp(0), 1, "de_dust2"),
   Snapshot(OkTimestamp(2000), 2, "de_dust2"),
   SaveFile(OkTimestamp(2000), Some(2), Some("de_dust2"), None, None, None,
            Some(<<Player("Alice", 0, 0)>>), Some(<<Player("Bob", 0, 0)>>)),
   BadSnapshot,
   Snapshot(BadTimestamp, 2, "de_dust2"),
   Garbage,
   NoSaveSection,
   Snapshot(NoTimestamp, 2, "de_dust2")}

QueryListings == SeqsUpTo(QueryFiles, MaxQueryFiles)

\* a history left in games.json by an earlier run of the process
OldGame ==
  ResolveGames(<<FileInfo(1, Snapshot(OkTimestamp(0), 1, "de_inferno")),
                 FileInfo(2, Snapshot(OkTimestamp(2000), 2, "de_inferno"))>>).results[1]

PreexistingHistories == {<<>>, <<OldGame>>}

----------------------------------------------------------------------------
(* The server *)

TaskIds == 1..MaxTasks

Idle == [kind |-> "none", pc |-> "idle", pending |-> <<>>, fileInfos |-> <<>>, gen |-> 0]

\* outcome: "failed" (the catch after a rejected await), "empty" (no backup
\* file), "threw" (the catch after toISOString threw) or "saved"
NothingDone ==
  [kind |-> "none", outcome |-> "none", results |-> <<>>, collected |-> 0,
   repeat |-> FALSE, now |-> 0]

\* the record of the call of slot t that completes now, having collected
\* that many file infos
Done(t, outcome, newGames, collected) ==
  [kind |-> task[t].kind, outcome |-> outcome, results |-> newGames,
   collected |-> collected,
   repeat |-> /\ task[t].kind = "update"
              /\ lastDone.kind = "update"
              /\ (lastDone.outcome = "saved") = (outcome = "saved")
              /\ lastDone.results = newGames,
   now |-> 0]

ServerInit ==
  /\ remote = <<>>
  /\ remoteGen = 0
  /\ gamesJson \in PreexistingHistories
  /\ leaderboardJson = aggregateLeaderboardFromGames(gamesJson)
  /\ gameResultsData = <<>>
  /\ leaderboardData = <<>>
  /\ task = [t \in TaskIds |-> Idle]
  /\ persistedGen = 0
  /\ lastDone = NothingDone

FnIdle ==
  /\ fnInput = <<>>
  /\ fnGroups = <<>>
  /\ fnResults = [outcomes |-> <<>>, returned |-> [threw |-> FALSE, results |-> <<>>]]
  /\ fnPhase = "off"

Init == ServerInit /\ FnIdle

\* index.js:116-127: an async call runs up to its first await, client.access
Start(t, kind) ==
  /\ task[t].pc = "idle"
  /\ task' = [task EXCEPT ![t] = [Idle EXCEPT !.kind = kind, !.pc = "access"]]
  /\ UNCHANGED <<remote, remoteGen, gamesJson, leaderboardJson, gameResultsData,
                 leaderboardData, persistedGen, lastDone>>
  /\ UNCHANGED fnVars

\* index.js:403, 412, 415: updateAllResults is called by /check-files, at
\* startup and by setInterval, whether or not an earlier call has finished
StartUpdate(t) == Start(t, "update")

\* index.js:295-296
StartGameResults(t) == Start(t, "gameresults")

\* index.js:396-397, 302-313
StartCurrentGame(t) == Start(t, "currentgame")

\* index.js:290-292: GET /leaderboard responds with leaderboardData
LeaderboardQuery ==
  /\ lastDone' = [kind |-> "leaderboard", outcome |-> "answered",
                  results |-> leaderboardData, collected |-> 0, repeat |-> FALSE,
                  now |-> 0]
  /\ UNCHANGED <<remote, remoteGen, gamesJson, leaderboardJson, gameResultsData,
                 leaderboardData, task, persistedGen>>
  /\ UNCHANGED fnVars

\* index.js:284-286, and the bookkeeping of a completed call
Publish(t, persistedGames, leaderboard, outcome, newGames, collected) ==
  /\ gamesJson' = persistedGames
  /\ gameResultsData' = persistedGames
  /\ leaderboardData' = leaderboard
  /\ leaderboardJson' = leaderboard
  /\ persistedGen' = IF outcome = "saved" THEN task[t].gen ELSE persistedGen
  /\ lastDone' = Done(t, outcome, newGames, collected)
  /\ task' = [task EXCEPT ![t] = Idle]
  /\ UNCHANGED <<remote, remoteGen>>
  /\ UNCHANGED fnVars

\* index.js:274-286: updateAllResults resumes with newGames
Reconcile(t, persistedGames, outcome, newGames, collected) ==
  Publish(t, persistedGames, aggregateLeaderboardFromGames(persistedGames), outcome,
          newGames, collected)

\* index.js:297: the /gameresults handler responds; index.js:318, 389, 398:
\* so does the /currentgame handler, with null and nothing written
Respond(t, file, outcome, newGames, collected) ==
  /\ gamesJson' = file
  /\ UNCHANGED <<gameResultsData, leaderboardData, leaderboardJson>>
  /\ persistedGen' = IF outcome = "saved" THEN task[t].gen ELSE persistedGen
  /\ lastDone' = Done(t, outcome, newGames, collected)
  /\ task' = [task EXCEPT ![t] = Idle]
  /\ UNCHANGED <<remote, remoteGen>>
  /\ UNCHANGED fnVars

\* aggregateGameResults has returned newGames, and games.json holds file.  In
\* the same turn of the event loop its caller resumes.
Returned(t, file, outcome, newGames, collected) ==
  IF task[t].kind = "update"
  THEN Reconcile(t, MergeGames(loadPersistedGames(file), newGames), outcome, newGames,
                 collected)
  ELSE Respond(t, file, outcome, newGames, collected)

\* a variant of the empty return that writes [] to games.json first
ReturnEmptySaved(t, outcome, collected) == Returned(t, <<>>, outcome, <<>>, collected)

\* index.js:132, 220-221: no backup file, or the catch: [] and no write
ReturnEmpty(t, outcome, collected) == Returned(t, gamesJson, outcome, <<>>, collected)

\* index.js:159-221: the collected file infos are resolved; the results are
\* saved and returned unless toISOString threw
Resolved(t, resolved, collected) ==
  IF resolved.threw
  THEN ReturnEmpty(t, "threw", collected)
  ELSE Returned(t, SavedByAggregate(resolved.results, gamesJson), "saved",
                resolved.results, collected)

\* index.js:121-128: client.access resolves, client.list is awaited
AccessDone(t) ==
  /\ task[t].pc = "access"
  /\ task' = [task EXCEPT ![t].pc = "list"]
  /\ UNCHANGED <<remote, remoteGen, gamesJson, leaderboardJson, gameResultsData,
                 leaderboardData, persistedGen, lastDone>>
  /\ UNCHANGED fnVars

\* index.js:128-137: client.list resolves; a file's name is its place in the
\* directory.  Without backup files the call returns [] at once.
ListDone(t) ==
  /\ task[t].pc = "list"
  /\ IF Len(remote) = 0
     THEN ReturnEmpty(t, "empty", 0)
     ELSE /\ task' = [task EXCEPT ![t].pc = "download",
                                  ![t].pending = [i \in 1..Len(remote) |-> i],
                                  ![t].gen = remoteGen]
          /\ UNCHANGED <<remote, remoteGen, gamesJson, leaderboardJson, gameResultsData,
                         leaderboardData, persistedGen, lastDone>>
          /\ UNCHANGED fnVars

----------------------------------------------------------------------------
(* index.js:302-399: aggregateCurrentGame and GET /currentgame *)

\* index.js:363-374: only the names of the players that have one
NameOnly(kept) == [i \in 1..Len(kept) |-> [name |-> kept[i].name[1]]]

NamesOnTeam(teamPlayers) ==
  IF teamPlayers = None THEN <<>>
  ELSE NameOnly(FilterSeq(teamPlayers[1],
                          {i \in 1..Len(teamPlayers[1]) : Named(teamPlayers[1][i])}))

\* index.js:375: Math.max(...currentGroup.map(f => f.round))
MaxRound(group) ==
  CHOOSE r \in {group[i].round : i \in 1..Len(group)} :
    \A i \in 1..Len(group) : group[i].round <= r

\* index.js:376-384
CurrentSession(startTime, currentSnapshot, duration, currentRound) ==
  [startTime |-> toISOString(startTime),
   currentSnapshotTime |-> toISOString(currentSnapshot.timestamp),
   duration |-> duration,
   map |-> IF currentSnapshot.data.map = None THEN "Unknown"
           ELSE currentSnapshot.data.map[1],
   currentScore |-> getFinalScore(currentSnapshot.data),
   currentRound |-> currentRound,
   players |-> [team1 |-> NamesOnTeam(currentSnapshot.data.PlayersOnTeam1),
                team2 |-> NamesOnTeam(currentSnapshot.data.PlayersOnTeam2)]]

\* index.js:356-389: toISOString of an invalid Date throws, and the catch
\* returns null
SessionOf(startTime, currentSnapshot, currentRound) ==
  IF ~startTime.valid \/ ~currentSnapshot.timestamp.valid
  THEN [outcome |-> "threw", answer |-> <<>>]
  ELSE [outcome |-> "live",
        answer |-> <<CurrentSession(
                       startTime, currentSnapshot,
                       formatDuration(FloorSeconds(DateDiff(currentSnapshot.timestamp,
                                                            startTime))),
                       currentRound)>>]

\* index.js:355-358
SessionOfSorted(sorted) == SessionOf(sorted[1].timestamp, sorted[Len(sorted)], MaxRound(sorted))

\* index.js:350-354: Date.now() - lastTimestamp > 90 * 1000, which is false
\* when getTime() of an invalid Date is NaN
OlderThan90s(lastTimestamp, now) == lastTimestamp.valid /\ now - lastTimestamp.ms > 90 * 1000

\* index.js:349-386 for the last group
CurrentOfGroup(currentGroup, now) ==
  IF OlderThan90s(currentGroup[Len(currentGroup)].timestamp, now)
  THEN [outcome |-> "stale", answer |-> <<>>]
  ELSE SessionOfSorted(SortByTimestamp(currentGroup))

\* index.js:347-348
CurrentOfGroups(gameGroups, now) ==
  IF Len(gameGroups) = 0 THEN [outcome |-> "nogroup", answer |-> <<>>]
  ELSE CurrentOfGroup(gameGroups[Len(gameGroups)], now)

\* index.js:345-386: what aggregateCurrentGame returns for the file infos it
\* has collected when Date.now() is now: no answer (null) or one session
CurrentGameOf(fileInfos, now) == CurrentOfGroups(groupFilesIntoGames(fileInfos), now)

\* index.js:397-398: the /currentgame handler responds with the answer
Answer(t, current, now, collected) ==
  /\ lastDone' = [kind |-> "currentgame", outcome |-> current.outcome,
                  results |-> current.answer, collected |-> collected,
                  repeat |-> FALSE, now |-> now]
  /\ task' = [task EXCEPT ![t] = Idle]
  /\ UNCHANGED <<remote, remoteGen, gamesJson, leaderboardJson, gameResultsData,
                 leaderboardData, persistedGen>>
  /\ UNCHANGED fnVars

\* index.js:134-159, 320-345: the loop goes on to the next file, or ends
Downloaded(t, fileInfos) ==
  IF Len(task[t].pending) = 1
  THEN IF task[t].kind = "currentgame"
       THEN \E now \in Nows : Answer(t, CurrentGameOf(fileInfos, now), now, Len(fileInfos))
       ELSE Resolved(t, ResolveGames(fileInfos), Len(fileInfos))
  ELSE /\ task' = [task EXCEPT ![t].pending = Tail(@), ![t].fileInfos = fileInfos]
       /\ UNCHANGED <<remote, remoteGen, gamesJson, leaderboardJson,
                      gameResultsData, leaderboardData, persistedGen, lastDone>>
       /\ UNCHANGED fnVars

\* index.js:137-158: client.downloadTo resolves for the next file, which is
\* read as the directory holds it now; after the last file index.js:159-218
\* run without an await.
DownloadDone(t) ==
  /\ task[t].pc = "download"
  /\ Head(task[t].pending) <= Len(remote)
  /\ Downloaded(t, PushFileInfo(task[t].fileInfos, Head(task[t].pending),
                                remote[Head(task[t].pending)]))

\* index.js:219-221: access, list or downloadTo rejects (unreachable host,
\* timeout, a file that is gone); the catch returns [].
RetrievalFails(t) ==
  /\ task[t].pc \in {"access", "list", "download"}
  /\ ReturnEmpty(t, "failed", Len(task[t].fileInfos))

\* The game server rewrites its backup files.
RemoteChange ==
  /\ remoteGen < MaxRemoteChanges
  /\ remote' \in Listings \ {remote}
  /\ remoteGen' = remoteGen + 1
  /\ UNCHANGED <<gamesJson, leaderboardJson, gameResultsData, leaderboardData,
                 task, persistedGen, lastDone>>
  /\ UNCHANGED fnVars

Next ==
  \/ \E t \in TaskIds :
       \/ StartUpdate(t)
       \/ StartGameResults(t)
       \/ AccessDone(t)
       \/ ListDone(t)
       \/ DownloadDone(t)
       \/ RetrievalFails(t)
  \/ RemoteChange

Spec == Init /\ [][Next]_vars

----------------------------------------------------------------------------
(* The same server beside an FTP directory that stays as it is: one call at *)
(* a time over any directory of up to MaxBatchFiles files.                  *)

BatchInit ==
  /\ remote \in BatchListings
  /\ remoteGen = 0
  /\ gamesJson = <<>>
  /\ leaderboardJson = <<>>
  /\ gameResultsData = <<>>
  /\ leaderboardData = <<>>
  /\ task = [t \in TaskIds |-> Idle]
  /\ persistedGen = 0
  /\ lastDone = NothingDone
  /\ FnIdle

BatchNext ==
  \/ StartUpdate(1)
  \/ StartGameResults(1)
  \/ AccessDone(1)
  \/ ListDone(1)
  \/ DownloadDone(1)
  \/ RetrievalFails(1)

SpecBatch == BatchInit /\ [][BatchNext]_vars

----------------------------------------------------------------------------
(* The queries: update cycles, GET /currentgame and GET /leaderboard over a *)
(* directory that does not change                                           *)

QueryInit ==
  /\ remote \in QueryListings
  /\ remoteGen = 0
  /\ gamesJson = <<>>
  /\ leaderboardJson = <<>>
  /\ gameResultsData = <<>>
  /\ leaderboardData = <<>>
  /\ task = [t \in TaskIds |-> Idle]
  /\ persistedGen = 0
  /\ lastDone = NothingDone
  /\ FnIdle

QueryNext ==
  \/ StartUpdate(1)
  \/ StartCurrentGame(1)
  \/ LeaderboardQuery
  \/ AccessDone(1)
  \/ ListDone(1)
  \/ DownloadDone(1)
  \/ RetrievalFails(1)

SpecQuery == QueryInit /\ [][QueryNext]_vars

----------------------------------------------------------------------------
(* Update cycles in which fs.writeFileSync throws (disk full, no permission) *)
(* at index.js:217, 284 or 266; the file it was to write is left as it was  *)

\* the process has exited: no callback runs any more
Exited == [Idle EXCEPT !.pc = "exited"]

\* index.js:403, 412, 415: nothing catches the rejection of updateAllResults.
\* The runtime either ends the process on an unhandled rejection (exited) or
\* warns and goes on.
Rejected(t, exited, newGames, collected) ==
  /\ task' = IF exited THEN [u \in TaskIds |-> Exited] ELSE [task EXCEPT ![t] = Idle]
  /\ lastDone' = Done(t, "rejected", newGames, collected)
  /\ UNCHANGED <<remote, remoteGen>>
  /\ UNCHANGED fnVars

\* index.js:274-286 when the write named by fault throws: "games.json" is
\* saveGameResults at line 284, "leaderboard.json" is line 266, called from
\* line 286 after line 285 has assigned gameResultsData
PublishThrowsWith(t, fault, exited, file, persistedGames, saved, newGames, collected) ==
  /\ gamesJson' = IF fault = "games.json" THEN file ELSE persistedGames
  /\ gameResultsData' = IF fault = "games.json" THEN gameResultsData ELSE persistedGames
  /\ UNCHANGED <<leaderboardData, leaderboardJson>>
  /\ persistedGen' = IF saved THEN task[t].gen ELSE persistedGen
  /\ Rejected(t, exited, newGames, collected)

\* index.js:217-218, 273-274: aggregateGameResults has saved and returned its
\* results, or its catch has returned []
PublishThrowsAfter(t, fault, exited, resolved, collected) ==
  IF resolved.threw
  THEN PublishThrowsWith(t, fault, exited, gamesJson, loadPersistedGames(gamesJson),
                         FALSE, <<>>, collected)
  ELSE PublishThrowsWith(t, fault, exited, SavedByAggregate(resolved.results, gamesJson),
                         MergeGames(loadPersistedGames(
                                      SavedByAggregate(resolved.results, gamesJson)),
                                    resolved.results),
                         TRUE, resolved.results, collected)

PublishThrowsOn(t, fault, exited, fileInfos) ==
  PublishThrowsAfter(t, fault, exited, ResolveGames(fileInfos), Len(fileInfos))

\* the last download of an update cycle resolves
LastDownload(t) ==
  /\ task[t].kind = "update"
  /\ task[t].pc = "download"
  /\ Len(task[t].pending) = 1
  /\ Head(task[t].pending) <= Len(remote)

\* The last download resolves and a write of lines 274-286 throws.
PublishThrows(t) ==
  /\ LastDownload(t)
  /\ \E fault \in {"games.json", "leaderboard.json"}, exited \in BOOLEAN :
       PublishThrowsOn(t, fault, exited,
                       PushFileInfo(task[t].fileInfos, Head(task[t].pending),
                                    remote[Head(task[t].pending)]))

\* index.js:217, 219-221: saveGameResults throws inside the try, the catch
\* returns [] and updateAllResults goes on with it
SaveThrowsAfter(t, resolved, collected) ==
  /\ ~resolved.threw
  /\ ReturnEmpty(t, "unsaved", collected)

SaveThrowsOn(t, fileInfos) == SaveThrowsAfter(t, ResolveGames(fileInfos), Len(fileInfos))

\* The last download resolves and the write of line 217 throws.
SaveThrows(t) ==
  /\ LastDownload(t)
  /\ SaveThrowsOn(t, PushFileInfo(task[t].fileInfos, Head(task[t].pending),
                                  remote[Head(task[t].pending)]))

PersistInit ==
  /\ remote \in Listings
  /\ remoteGen = 0
  /\ gamesJson \in PreexistingHistories
  /\ leaderboardJson = aggregateLeaderboardFromGames(gamesJson)
  /\ gameResultsData = <<>>
  /\ leaderboardData = <<>>
  /\ task = [t \in TaskIds |-> Idle]
  /\ persistedGen = 0
  /\ lastDone = NothingDone
  /\ FnIdle

PersistNext ==
  \/ StartUpdate(1)
  \/ AccessDone(1)
  \/ ListDone(1)
  \/ DownloadDone(1)
  \/ RetrievalFails(1)
  \/ SaveThrows(1)
  \/ PublishThrows(1)

SpecPersist == PersistInit /\ [][PersistNext]_vars

----------------------------------------------------------------------------
(* Function-level runs: index.js:134-215 without the awaits *)

RECURSIVE CollectLoop(_, _, _)
\* index.js:134-158 over the files of a directory
CollectLoop(listing, i, fileInfos) ==
  IF i > Len(listing) THEN fileInfos
  ELSE CollectLoop(listing, i + 1, PushFileInfo(fileInfos, i, listing[i]))

Collect(listing) == CollectLoop(listing, 1, <<>>)

ServerOff ==
  /\ remote = <<>>
  /\ remoteGen = 0
  /\ gamesJson = <<>>
  /\ leaderboardJson = <<>>
  /\ gameResultsData = <<>>
  /\ leaderboardData = <<>>
  /\ task = [t \in TaskIds |-> Idle]
  /\ persistedGen = 0
  /\ lastDone = NothingDone

NothingResolved == [outcomes |-> <<>>, returned |-> [threw |-> FALSE, results |-> <<>>]]

FnInit(listings) ==
  /\ ServerOff
  /\ fnInput \in {Collect(listing) : listing \in listings}
  /\ fnGroups = <<>>
  /\ fnResults = NothingResolved
  /\ fnPhase = "input"

\* index.js:159
GroupStep ==
  /\ fnPhase = "input"
  /\ fnGroups' = groupFilesIntoGames(fnInput)
  /\ fnPhase' = "grouped"
  /\ UNCHANGED <<fnInput, fnResults>>
  /\ UNCHANGED serverVars

\* index.js:161-215: the outcome of every group, and what the loop returns
ResolveStep ==
  /\ fnPhase = "grouped"
  /\ fnResults' = [outcomes |-> [i \in 1..Len(fnGroups) |-> ResolveGroup(fnGroups[i])],
                   returned |-> ResolveLoop(fnGroups, 1, <<>>)]
  /\ fnPhase' = "resolved"
  /\ UNCHANGED <<fnInput, fnGroups>>
  /\ UNCHANGED serverVars

SpecGroup == FnInit(SeqsUpTo(GroupFiles, MaxGroupInput)) /\ [][GroupStep]_vars

ResolveRun == GroupStep \/ ResolveStep

SpecResolve == FnInit(SeqsUpTo(ResolveFiles, MaxResolveInput)) /\ [][ResolveRun]_vars

----------------------------------------------------------------------------
(* Claims *)

\* the natural keys of a history
HistoryKeys(history) ==
  {<<history[i].startTime, history[i].map>> : i \in 1..Len(history)}

\* the call of slot t completes in this step
Completes(t) == task[t].pc # "idle" /\ task'[t].pc = "idle"

\* C1 (as claimed): once an update cycle has completed, every game that
\* games.json holds (by its natural key) is still in games.json after the next
\* operation, whatever the FTP directory lists by then.
C1_AppendOnly ==
  [][lastDone.kind = "update" => HistoryKeys(gamesJson) \subseteq HistoryKeys(gamesJson')]_vars

NoDuplicateKeys(history) ==
  \A i, j \in 1..Len(history) :
     i < j => ~(history[i].startTime = history[j].startTime /\ history[i].map = history[j].map)

\* C2 (as claimed): games.json and gameResultsData never hold two game results
\* with the same natural key (startTime, map).
C2_NoDuplicateKeys == NoDuplicateKeys(gamesJson) /\ NoDuplicateKeys(gameResultsData)

\* C3: an update cycle that resolves what the update cycle completed just
\* before it resolved (as it does against the same snapshots) leaves
\* games.json, the in-memory history and both leaderboards as they were.
C3_UpdateIdempotent ==
  [][\A t \in TaskIds :
       (task[t].kind = "update" /\ Completes(t) /\ lastDone'.repeat)
         => /\ gamesJson' = gamesJson
            /\ gameResultsData' = gameResultsData
            /\ leaderboardData' = leaderboardData
            /\ leaderboardJson' = leaderboardJson]_vars

\* C3 witness: a cycle has saved games a second time in a row
C3_Witness ==
  /\ lastDone.repeat
  /\ lastDone.outcome = "saved"
  /\ lastDone.results # <<>>
  /\ gamesJson = lastDone.results

\* C5 (as claimed): at most one updateAllResults call is between its start
\* and the end of its merge-and-persist step.
C5_SingleFlight ==
  Cardinality({t \in TaskIds : task[t].kind = "update" /\ task[t].pc # "idle"}) <= 1

\* C6 (as claimed): no operation that worked from a listing older than the
\* one games.json was last computed from changes games.json, so that no
\* result of the newer view is lost to an older one.
C6_NoStaleOverwrite == [][persistedGen' < persistedGen => gamesJson' = gamesJson]_vars

\* the update cycle of slot t ends in this step after a rejected await
FailsNow(t) == task[t].kind = "update" /\ Completes(t) /\ lastDone'.outcome = "failed"

\* C7 (as claimed): a retrieval failure yields no results and leaves
\* games.json, the in-memory history and the leaderboard as before the cycle.
C7_FailureLeavesStateUntouched ==
  [][\A t \in TaskIds :
       FailsNow(t) => /\ lastDone'.results = <<>>
                      /\ gamesJson' = gamesJson
                      /\ gameResultsData' = gameResultsData
                      /\ leaderboardData' = leaderboardData]_vars

\* C7 (amended): a retrieval failure yields no results and leaves games.json
\* as it was; the in-memory history becomes the content of games.json and
\* both leaderboards become its aggregation.
C7_FailureReloadsHistory ==
  [][\A t \in TaskIds :
       FailsNow(t) => /\ lastDone'.results = <<>>
                      /\ gamesJson' = gamesJson
                      /\ gameResultsData' = gamesJson
                      /\ leaderboardData' = aggregateLeaderboardFromGames(gamesJson)
                      /\ leaderboardJson' = leaderboardData']_vars

\* C7 witness: a cycle failed after it had downloaded a file, beside a history
C7_Witness ==
  /\ lastDone.kind = "update"
  /\ lastDone.outcome = "failed"
  /\ lastDone.collected > 0
  /\ gamesJson # <<>>
  /\ gameResultsData = gamesJson

----------------------------------------------------------------------------
(* Claims about the resolver *)

\* every timestamp of the group is valid and none is earlier than the one before
TimeOrdered(group) ==
  /\ \A i \in 1..Len(group) : group[i].timestamp.valid
  /\ \A i \in 1..(Len(group) - 1) : group[i].timestamp.ms <= group[i + 1].timestamp.ms

\* first and last record of a time-ordered group are less than a second apart
TooShort(group) == group[Len(group)].timestamp.ms - group[1].timestamp.ms < 1000

\* what a score section holds for a team, 0 when it is missing
SectionScore(section, team) ==
  IF section = <<>> THEN 0
  ELSE IF section[1][team] = <<>> THEN 0 ELSE section[1][team][1]

SummedScore(save, team) ==
  SectionScore(save.FirstHalfScore, team) + SectionScore(save.SecondHalfScore, team)
    + SectionScore(save.OvertimeScore, team)

\* the final snapshot of a time-ordered group sums to 0-0
Scoreless(group) ==
  /\ SummedScore(group[Len(group)].data, "team1") = 0
  /\ SummedScore(group[Len(group)].data, "team2") = 0

\* the game results the resolver made of the groups, one by one
OkResults ==
  {fnResults.outcomes[i].result[1] :
     i \in {k \in 1..Len(fnResults.outcomes) : fnResults.outcomes[k].status = "ok"}}

\* C4: no game result of the resolver has duration "00:00:00" or final score
\* 0-0, what the loop returns holds no other game results, and a time-ordered
\* group that is less than a second long, or whose final snapshot sums to 0-0,
\* yields no game result.
C4_NoDegenerateResult ==
  fnPhase = "resolved" =>
    /\ \A r \in OkResults :
         /\ r.duration # "00:00:00"
         /\ ~(r.finalScore.team1 = 0 /\ r.finalScore.team2 = 0)
    /\ Range(fnResults.returned.results) \subseteq OkResults
    /\ \A i \in 1..Len(fnGroups) :
         (TimeOrdered(fnGroups[i]) /\ (TooShort(fnGroups[i]) \/ Scoreless(fnGroups[i])))
           => fnResults.outcomes[i].status = "skip"

\* C4 witness: a group whose last record is later than its first, but by less
\* than a second, and has a score, has been passed over
C4_Witness ==
  /\ fnPhase = "resolved"
  /\ \E i \in 1..Len(fnGroups) :
       /\ TimeOrdered(fnGroups[i]) /\ TooShort(fnGroups[i]) /\ ~Scoreless(fnGroups[i])
       /\ fnGroups[i][1].timestamp.ms < fnGroups[i][Len(fnGroups[i])].timestamp.ms
       /\ fnResults.outcomes[i].status = "skip"

\* the names of a roster, in its order
RosterNames(roster) == [k \in 1..Len(roster) |-> roster[k].name]

\* C10: in every game result, when the final scores differ the winner is the
\* names of the roster of the team with the higher score and the loser the
\* names of the other roster; when they are equal both lists are empty.
C10_WinnerAndLoser ==
  fnPhase = "resolved" =>
    \A r \in OkResults :
      /\ r.finalScore.team1 > r.finalScore.team2
           => /\ r.winner = RosterNames(r.players.team1)
              /\ r.loser = RosterNames(r.players.team2)
      /\ r.finalScore.team2 > r.finalScore.team1
           => /\ r.winner = RosterNames(r.players.team2)
              /\ r.loser = RosterNames(r.players.team1)
      /\ r.finalScore.team1 = r.finalScore.team2
           => r.winner = <<>> /\ r.loser = <<>>

\* C10 witness: a game that team 2 has won, with both rosters named
C10_Witness ==
  /\ fnPhase = "resolved"
  /\ \E r \in OkResults :
       /\ r.finalScore.team2 > r.finalScore.team1
       /\ r.winner = <<"Bob">>
       /\ r.loser = <<"Alice">>

----------------------------------------------------------------------------
(* Claims about groupFilesIntoGames *)

\* the records of the groups, in output order
Flat == Concat(fnGroups)

RECURSIVE StartOf(_, _)
\* the position in Flat of the first record of group i
StartOf(groups, i) == IF i = 1 THEN 1 ELSE StartOf(groups, i - 1) + Len(groups[i - 1])

GroupStarts == {StartOf(fnGroups, i) : i \in 1..Len(fnGroups)}

\* the first record of the group that holds position k of Flat
FirstOfGroupAt(k) ==
  Flat[CHOOSE s \in GroupStarts : s <= k /\ \A u \in GroupStarts : u <= k => u <= s]

\* C8: along the order in which the records are processed, a record after
\* the first starts a new group exactly when its round is 1 or its map is
\* not the map of the first record of the open group; so every record of a
\* group has the map of the group's first record and only a group's first
\* record has round 1.
C8_GroupBoundaries ==
  fnPhase = "grouped" =>
    /\ Flat = SortByTimestamp(fnInput)
    /\ \A k \in 2..Len(Flat) :
         k \in GroupStarts
           <=> (Flat[k].round = 1 \/ Flat[k].data.map # FirstOfGroupAt(k - 1).data.map)
    /\ \A i \in 1..Len(fnGroups) : \A j \in 2..Len(fnGroups[i]) :
         /\ fnGroups[i][j].data.map = fnGroups[i][1].data.map
         /\ fnGroups[i][j].round # 1

\* C8 witness: a record was appended, the next one opened a group by its
\* round on the same map, and the one after it by its map with round 2
C8_Witness ==
  /\ fnPhase = "grouped"
  /\ \E k \in 2..(Len(Flat) - 1) :
       /\ k \notin GroupStarts
       /\ k + 1 \in GroupStarts
       /\ Flat[k + 1].round = 1 /\ Flat[k + 1].data.map = Flat[k].data.map
  /\ \E k \in 2..Len(Flat) :
       /\ k \in GroupStarts
       /\ Flat[k].round = 2 /\ Flat[k].data.map # Flat[k - 1].data.map

\* C9: every file info of the input is in exactly one group and no group is
\* empty; when all timestamps of the input are valid, every group is in
\* ascending order of timestamp and the groups in output order are the input
\* in ascending order of timestamp.
C9_Partition ==
  fnPhase = "grouped" =>
    /\ \A i \in 1..Len(fnGroups) : Len(fnGroups[i]) > 0
    /\ Len(Flat) = Len(fnInput)
    /\ \A n \in 1..Len(fnInput) :
         Cardinality({k \in 1..Len(Flat) : Flat[k] = fnInput[n]}) = 1
    /\ (\A n \in 1..Len(fnInput) : fnInput[n].timestamp.valid)
         => /\ \A i \in 1..Len(fnGroups) : TimeOrdered(fnGroups[i])
            /\ TimeOrdered(Flat)

\* C9 witness: four file infos that came latest first, all with a valid
\* timestamp, were put in two groups or more
C9_Witness ==
  /\ fnPhase = "grouped"
  /\ Len(fnInput) = 4
  /\ \A n \in 1..Len(fnInput) : fnInput[n].timestamp.valid
  /\ fnInput[1].timestamp.ms > fnInput[4].timestamp.ms
  /\ Len(fnGroups) >= 2
  /\ \E i \in 1..Len(fnGroups) : Len(fnGroups[i]) >= 2

----------------------------------------------------------------------------
(* aggregateLeaderboardFromGames on its own: fnInput is the history, fnResults *)
(* the leaderboard it returns                                               *)

\* a roster entry as the resolver pushes it (index.js:186)
Entry(name, kills, deaths) == [name |-> name, kills |-> kills, deaths |-> deaths]

\* Rosters of team 1: one player; two players who bear the same name; a
\* player whose name is a property every object inherits; nobody.
Team1Rosters ==
  {<<Entry("Alice", 2, 1)>>,
   <<Entry("Alice", 2, 1), Entry("Alice", 1, 0)>>,
   <<Entry("Bob", 2, 3), Entry("constructor", 1, 1)>>,
   <<>>}

Team2Rosters ==
  {<<Entry("Bob", 1, 2)>>,
   <<Entry("Carol", 3, 0)>>,
   <<Entry("Alice", 0, 1), Entry("Carol", 1, 1)>>}

FinalScores ==
  {[team1 |-> 2, team2 |-> 1], [team1 |-> 1, team2 |-> 2], [team1 |-> 1, team2 |-> 1]}

\* the game results a history is made of, as index.js:203-212 builds them
HistoryGames ==
  {GameResult(DateOf(0), DateOf(2000), "00:00:02", "de_dust2", score,
              [team1 |-> team1, team2 |-> team2]) :
      team1 \in Team1Rosters, team2 \in Team2Rosters, score \in FinalScores}

LeaderboardInit ==
  /\ ServerOff
  /\ fnInput \in SeqsUpTo(HistoryGames, MaxGames)
  /\ fnGroups = <<>>
  /\ fnResults = <<>>
  /\ fnPhase = "history"

\* index.js:286, 233-268
AggregateStep ==
  /\ fnPhase = "history"
  /\ fnResults' = aggregateLeaderboardFromGames(fnInput)
  /\ fnPhase' = "aggregated"
  /\ UNCHANGED <<fnInput, fnGroups>>
  /\ UNCHANGED serverVars

SpecLeaderboard == LeaderboardInit /\ [][AggregateStep]_vars

----------------------------------------------------------------------------
(* Claims about the leaderboard *)

\* the roster entries of a game, and of a history
EntriesOfGame(game) == game.players.team1 \o game.players.team2

EntriesOfHistory(history) ==
  Concat([g \in 1..Len(history) |-> EntriesOfGame(history[g])])

NamesIn(entries) == {entries[k].name : k \in 1..Len(entries)}

RECURSIVE SumOf(_, _, _, _)
\* the sum of a field over the entries from k on that bear the name
SumOf(entries, name, field, k) ==
  IF k > Len(entries) THEN 0
  ELSE (IF entries[k].name = name THEN entries[k][field] ELSE 0)
         + SumOf(entries, name, field, k + 1)

\* C11 (as claimed): the leaderboard has exactly one entry for every name
\* that is in a roster of the history and no other entry, and the entry's
\* totalKills and totalDeaths are the sums over all roster entries of that name.
C11_OneEntryPerName ==
  fnPhase = "aggregated" =>
    /\ \A name \in NamesIn(EntriesOfHistory(fnInput)) :
         Cardinality({i \in 1..Len(fnResults) : fnResults[i].name = name}) = 1
    /\ \A i \in 1..Len(fnResults) :
         /\ fnResults[i].name \in NamesIn(EntriesOfHistory(fnInput))
         /\ fnResults[i].totalKills
              = SumOf(EntriesOfHistory(fnInput), fnResults[i].name, "kills", 1)
         /\ fnResults[i].totalDeaths
              = SumOf(EntriesOfHistory(fnInput), fnResults[i].name, "deaths", 1)

\* the games of the history with the name in a roster
GamesWith(history, name) ==
  {g \in 1..Len(history) : name \in NamesIn(EntriesOfGame(history[g]))}

\* C12 (as claimed): every entry's matchesPlayed is the number of games of
\* the history that have the name in a roster, each game counted once, and so
\* is at most the number of games.
C12_MatchesPlayed ==
  fnPhase = "aggregated" =>
    \A i \in 1..Len(fnResults) :
      /\ fnResults[i].matchesPlayed = Cardinality(GamesWith(fnInput, fnResults[i].name))
      /\ fnResults[i].matchesPlayed <= Len(fnInput)

\* the games of the history that the name's team has won
GamesWonBy(history, name) ==
  {g \in 1..Len(history) :
     \/ /\ history[g].finalScore.team1 > history[g].finalScore.team2
        /\ name \in NamesIn(history[g].players.team1)
     \/ /\ history[g].finalScore.team2 > history[g].finalScore.team1
        /\ name \in NamesIn(history[g].players.team2)}

\* C13 (as claimed): every entry's wins is the number of games of the history
\* in which the name is on the roster of the team with the strictly higher
\* score, and is at most matchesPlayed.
C13_Wins ==
  fnPhase = "aggregated" =>
    \A i \in 1..Len(fnResults) :
      /\ fnResults[i].wins = Cardinality(GamesWonBy(fnInput, fnResults[i].name))
      /\ fnResults[i].wins <= fnResults[i].matchesPlayed

\* kd in hundredths is totalKills when there are no deaths, and otherwise
\* the hundredth nearest to totalKills / totalDeaths
KdAsDefined(p) ==
  IF p.totalDeaths = 0 THEN p.kd.hundredths = 100 * p.totalKills
  ELSE /\ 2 * p.totalDeaths * p.kd.hundredths <= 200 * p.totalKills + p.totalDeaths
       /\ 2 * p.totalDeaths * p.kd.hundredths > 200 * p.totalKills - p.totalDeaths

\* C14: in the leaderboard returned no entry has a lower kd than the entry
\* after it, where kd is totalKills when totalDeaths is 0 and otherwise
\* totalKills / totalDeaths rounded to two decimals.
C14_SortedByKd ==
  fnPhase = "aggregated" =>
    /\ \A i \in 1..Len(fnResults) : KdAsDefined(fnResults[i])
    /\ \A i \in 1..(Len(fnResults) - 1) :
         fnResults[i].kd.hundredths >= fnResults[i + 1].kd.hundredths

\* C14 witness: three players; the one first seen (kd 0.67, rounded up) is
\* last, and the first has no deaths
C14_Witness ==
  /\ fnPhase = "aggregated"
  /\ Len(fnResults) = 3
  /\ fnResults[3].name = EntriesOfHistory(fnInput)[1].name
  /\ fnResults[3].kd.hundredths = 67
  /\ fnResults[1].totalDeaths = 0
  /\ fnResults[1].kd.hundredths > fnResults[2].kd.hundredths
  /\ fnResults[2].kd.hundredths > fnResults[3].kd.hundredths

----------------------------------------------------------------------------
(* Claims about the queries and the artifacts *)

\* a file of the directory that has a timestamp that parses
HasInstant(file) == file.kind = "save" /\ file.save.timestamp.kind = "ok"

\* the latest instant of the snapshots of the directory
LatestInstant ==
  CHOOSE ms \in {remote[i].save.timestamp.ms : i \in {k \in 1..Len(remote) : HasInstant(remote[k])}} :
    \A i \in 1..Len(remote) : HasInstant(remote[i]) => remote[i].save.timestamp.ms <= ms

\* the last call to complete was aggregateCurrentGame, and its retrieval succeeded
CurrentGameAnswered ==
  lastDone.kind = "currentgame" /\ lastDone.outcome \notin {"failed", "empty"}

\* C15 (as claimed): after a successful retrieval with a usable record or
\* more, aggregateCurrentGame returns null exactly when Date.now() is more
\* than 90 seconds after the latest snapshot.
C15_NinetySeconds ==
  (CurrentGameAnswered /\ \E i \in 1..Len(remote) : HasInstant(remote[i]))
    => (lastDone.results = <<>> <=> lastDone.now - LatestInstant > 90 * 1000)

\* C16 (as claimed): the session that aggregateCurrentGame reports as live
\* is not in games.json as a game result of the same snapshots.
C16_LiveNotStored ==
  (lastDone.kind = "currentgame" /\ lastDone.outcome = "live")
    => ~\E g \in 1..Len(gamesJson) :
           /\ gamesJson[g].startTime = lastDone.results[1].startTime
           /\ gamesJson[g].endTime = lastDone.results[1].currentSnapshotTime
           /\ gamesJson[g].map = lastDone.results[1].map

\* an artifact that is to make no record
UnusableArtifact(file) ==
  \/ file.kind \in {"garbage", "nosave"}
  \/ file.save.timestamp.kind \in {"missing", "bad"}

\* the directory without its i-th file
WithoutFile(listing, i) ==
  [k \in 1..(Len(listing) - 1) |-> IF k < i THEN listing[k] ELSE listing[k + 1]]

\* the i-th file of the directory is its only unusable artifact
OnlyUnusable(i) ==
  /\ UnusableArtifact(remote[i])
  /\ \A j \in 1..Len(remote) : j # i => ~UnusableArtifact(remote[j])

\* the last call to complete was an update cycle that has retrieved every file
UpdateRetrieved ==
  lastDone.kind = "update" /\ lastDone.outcome \in {"saved", "threw"}

\* C17 (as claimed): when one artifact of the directory is unusable, the
\* cycle makes no record of it and its game results are those of the other
\* artifacts alone.
C17_UnusableArtifactSkipped ==
  UpdateRetrieved =>
    \A i \in 1..Len(remote) :
      OnlyUnusable(i)
        => /\ lastDone.collected = Len(remote) - 1
           /\ lastDone.results = ResolveGames(Collect(WithoutFile(remote, i))).results

\* C20 (as claimed, for the current session): a /currentgame request is
\* answered without a remote retrieval, so no such call is ever waiting for
\* the FTP server.
C20_QueriesFromMemory ==
  \A t \in TaskIds :
    task[t].kind = "currentgame" => task[t].pc \notin {"access", "list", "download"}

----------------------------------------------------------------------------
(* Claims about failing writes *)

\* the update cycle of slot t ends in this step because a write has thrown
WriteFailsNow(t) ==
  /\ task[t].kind = "update"
  /\ task[t].pc = "download"
  /\ task'[t].pc \in {"idle", "exited"}
  /\ lastDone'.outcome \in {"unsaved", "rejected"}

\* C18 (as claimed): when a write of the history or of the leaderboard fails
\* in an update cycle, games.json, leaderboard.json, the in-memory history and
\* the in-memory leaderboard are after the cycle what they were before it.
C18_FailedWriteDiscardsCycle ==
  [][\A t \in TaskIds :
       WriteFailsNow(t) => /\ gamesJson' = gamesJson
                           /\ leaderboardJson' = leaderboardJson
                           /\ gameResultsData' = gameResultsData
                           /\ leaderboardData' = leaderboardData]_vars

\* C19 (as claimed): whenever a request handler can run, the in-memory
\* leaderboard is the aggregation of the in-memory history.
C19_ReadersSeeWholeState ==
  (\A t \in TaskIds : task[t].pc # "exited")
    => leaderboardData = aggregateLeaderboardFromGames(gameResultsData)

----------------------------------------------------------------------------
(* Claims about GET /gameresults and the stored copies *)

\* the /gameresults request of slot t is answered in this step
GameResultsAnswered(t) == task[t].kind = "gameresults" /\ Completes(t)

\* C21 (as claimed): the response of GET /gameresults holds every game result
\* that games.json held when the request was answered, and it is that history
\* itself when the retrieval failed or the directory has no backup file.
C21_FullHistoryReturned ==
  [][\A t \in TaskIds :
       GameResultsAnswered(t)
         => /\ Range(gamesJson) \subseteq Range(lastDone'.results)
            /\ lastDone'.outcome \in {"failed", "empty"} => lastDone'.results = gamesJson]_vars

\* the history file holds the in-memory history and the leaderboard file the
\* aggregation of the history file
CopiesAgree(gamesFile, memory, leaderboardFile) ==
  /\ gamesFile = memory
  /\ leaderboardFile = aggregateLeaderboardFromGames(gamesFile)

StoredCopiesAgree == CopiesAgree(gamesJson, gameResultsData, leaderboardJson)

\* the call of slot t completes in this step and leaves no call in flight
LastInFlightCompletes(t) ==
  /\ Completes(t)
  /\ \A u \in TaskIds : task'[u].pc = "idle"

\* C22 (as claimed): when an update cycle completes and no call is left in
\* flight the stored copies agree, and a /gameresults request that completes
\* while they agree, leaving no call in flight, leaves them in agreement.
C22_StoredCopiesAgree ==
  [][\A t \in TaskIds :
       (/\ LastInFlightCompletes(t)
        /\ task[t].kind \in {"update", "gameresults"}
        /\ task[t].kind = "gameresults" => StoredCopiesAgree)
         => CopiesAgree(gamesJson', gameResultsData', leaderboardJson')]_vars

----------------------------------------------------------------------------
(* Claims about the results of one cycle *)

DistinctStartTimes(gameResults) ==
  \A i, j \in 1..Len(gameResults) :
     i < j => gameResults[i].startTime # gameResults[j].startTime

\* C23 (as claimed): the game results that one call of aggregateGameResults
\* resolves, in an update cycle or for GET /gameresults, have pairwise
\* distinct startTime values, whatever files the directory lists.
C23_DistinctStartTimes ==
  lastDone.kind \in {"update", "gameresults"} => DistinctStartTimes(lastDone.results)

====
